---- MODULE Spec2Model ----
(***************************************************************************)
(* homework.py: a polling bot.  main() checks three environment tokens,   *)
(* then forever: fetches the homework statuses updated since `timestamp`,  *)
(* validates the answer, sends the verdict of the first homework through   *)
(* the Telegram bot, reports errors through ErrorHandler (one-slot dedup   *)
(* by text) and sleeps RETRY_PERIOD seconds.                                *)
(*                                                                         *)
(* The module's strings are ASCII transliterations of the Russian          *)
(* literals of the source (the parser reads ASCII only); each one is       *)
(* annotated with the line of the literal it stands for.                   *)
(***************************************************************************)
EXTENDS Integers, Sequences, FiniteSets, TLC

\* -------------------------------------------------------------- bounds
\* Number of loop iterations explored with every answer of the API.
MaxCycles == 2
\* Number of loop iterations explored with the answers of LongOutcomes.
MaxLongCycles == 3
\* Number of times the reviewer changes the tracked submission.
MaxReviews == 1

\* ----------------------------------------------------------- constants
RETRY_PERIOD == 600
START_OFFSET == 300
\* int(time.time()) when main() starts.
StartTime == 1000

\* HTTPStatus.OK
HTTP_OK == 200

\* Python's None where a string is expected (dict.get of an absent key).
None == "<None>"
\* os.getenv of a variable that is not set.
Unset == "<unset>"

\* ---------------------------------------------------------- values
\* A JSON / Python scalar that can end up in `timestamp`: an int, or None.
IntVal(n) == [type |-> "int", val |-> n]
NoneVal == [type |-> "NoneType", val |-> 0]

\* str(v) as an f-string or a query string renders it.
Str(v) == IF v.type = "int" THEN ToString(v.val) ELSE "None"

\* The dict of line 29: status -> verdict text.
\*   approved  'Rabota proverena: revyueru vsyo ponravilos. Ura!'
\*   reviewing 'Rabota vzyata na proverku revyuerom.'
\*   rejected  'Rabota proverena: u revyuera est zamechaniya.'
HOMEWORK_VERDICTS ==
    [s \in {"approved", "reviewing", "rejected"} |->
        CASE s = "approved"  -> "Rabota proverena: revyueru vsyo ponravilos. Ura!"
          [] s = "reviewing" -> "Rabota vzyata na proverku revyuerom."
          [] s = "rejected"  -> "Rabota proverena: u revyuera est zamechaniya."]

\* The result of a call: it returned `value`, or raised exception `exc`
\* whose str() is `msg`.
Returned(v) == [raised |-> FALSE, exc |-> "", msg |-> "", value |-> v]
Raised(e, m, dflt) == [raised |-> TRUE, exc |-> e, msg |-> m, value |-> dflt]

\* ------------------------------------------------------- check_tokens
\* The keys of required_tokens, in the dict's insertion order.
TokenNames == <<"PRACTICUM_TOKEN", "TELEGRAM_TOKEN", "TELEGRAM_CHAT_ID">>

\* `not token`: None (unset) and the empty string are both falsy.
Falsy(token) == token = Unset \/ token = ""

\* The list comprehension of lines 53-55.
missing_tokens(environ) ==
    SelectSeq(TokenNames, LAMBDA name : Falsy(environ[name]))

\* check_tokens that logs and returns instead of exiting.
check_tokens_returns(environ) ==
    LET missing == missing_tokens(environ)
    IN  [logged |-> IF missing # <<>> THEN <<missing[1]>> ELSE <<>>,
         exits |-> FALSE]

\* Lines 56-61: the for loop logs one critical line for the token it is at
\* and then calls sys.exit(), which is inside the loop body: the loop never
\* reaches a second token.  logged: the tokens named in critical lines;
\* exits: SystemExit was raised.
check_tokens(environ) ==
    LET missing == missing_tokens(environ)
    IN  IF missing # <<>>
        THEN [logged |-> <<missing[1]>>, exits |-> TRUE]
        ELSE [logged |-> <<>>, exits |-> FALSE]

\* ------------------------------------------------------- parse_status
\* parse_status without the membership test of line 138: an undocumented
\* status is reported to the user as it is.
parse_status_lenient(homework) ==
    IF ~homework.isDict
    THEN Raised("AttributeError", "'str' object has no attribute 'get'", "")
    ELSE IF homework.status = None \/ homework.homework_name = None
    THEN Raised("ValueError",
                "Nedostatochno informatsii dlya opredeleniya statusa raboty", "")
    ELSE Returned("Izmenilsya status proverki raboty \""
                  \o homework.homework_name \o "\". "
                  \o (IF homework.status \in {"approved", "reviewing", "rejected"}
                      THEN (CASE homework.status = "approved" ->
                                   "Rabota proverena: revyueru vsyo ponravilos. Ura!"
                              [] homework.status = "reviewing" ->
                                   "Rabota vzyata na proverku revyuerom."
                              [] OTHER ->
                                   "Rabota proverena: u revyuera est zamechaniya.")
                      ELSE homework.status))

\* parse_status whose template lost the quotes around the name.
parse_status_unquoted(homework) ==
    IF ~homework.isDict
    THEN Raised("AttributeError", "'str' object has no attribute 'get'", "")
    ELSE IF homework.status = None \/ homework.homework_name = None
    THEN Raised("ValueError",
                "Nedostatochno informatsii dlya opredeleniya statusa raboty", "")
    ELSE IF homework.status \notin {"approved", "reviewing", "rejected"}
    THEN Raised("ValueError", "Nedokumentirovannyy status raboty", "")
    ELSE Returned("Izmenilsya status proverki raboty "
                  \o homework.homework_name \o ". "
                  \o (CASE homework.status = "approved" ->
                              "Rabota proverena: revyueru vsyo ponravilos. Ura!"
                         [] homework.status = "reviewing" ->
                              "Rabota vzyata na proverku revyuerom."
                         [] OTHER ->
                              "Rabota proverena: u revyuera est zamechaniya."))

\* A homework is [isDict, status, homework_name]; an absent key reads as None
\* through dict.get.
\* line 134: 'Nedostatochno informatsii dlya opredeleniya statusa raboty'
\* line 139: 'Nedokumentirovannyy status raboty'
\* line 143: 'Izmenilsya status proverki raboty "{homework_name}". {verdict}'
parse_status(homework) ==
    IF ~homework.isDict
    THEN Raised("AttributeError", "'str' object has no attribute 'get'", "")
    ELSE IF homework.status = None \/ homework.homework_name = None
    THEN Raised("ValueError",
                "Nedostatochno informatsii dlya opredeleniya statusa raboty", "")
    ELSE IF homework.status \notin DOMAIN HOMEWORK_VERDICTS
    THEN Raised("ValueError", "Nedokumentirovannyy status raboty", "")
    ELSE Returned("Izmenilsya status proverki raboty \""
                  \o homework.homework_name \o "\". "
                  \o HOMEWORK_VERDICTS[homework.status])

\* ------------------------------------------------------ get_api_answer
\* line 25
ENDPOINT == "https://practicum.yandex.ru/api/user_api/homework_statuses/"

\* The URL requests builds from params={'from_date': timestamp}: a parameter
\* whose value is None is left out of the query string.
Url(timestamp) ==
    IF timestamp.type = "NoneType" THEN ENDPOINT
    ELSE ENDPOINT \o "?from_date=" \o Str(timestamp)

\* Response.raise_for_status(): HTTPError for 4xx and 5xx, nothing otherwise.
\* Its text is '<code> Client|Server Error: <reason> for url: <url>'; the
\* reason phrase, which the server words, is left out.
raise_for_status(status_code, url) ==
    IF 400 =< status_code /\ status_code < 500
    THEN Raised("HTTPError",
                ToString(status_code) \o " Client Error for url: " \o url, "")
    ELSE IF 500 =< status_code /\ status_code < 600
    THEN Raised("HTTPError",
                ToString(status_code) \o " Server Error for url: " \o url, "")
    ELSE Returned("")

\* A body that was never decoded (the value slot of a raised result).
NoBody ==
    [json |-> FALSE, isDict |-> FALSE, hasHomeworks |-> FALSE,
     homeworksIsList |-> FALSE, homeworks |-> <<>>,
     hasDate |-> FALSE, current_date |-> NoneVal]

\* http: what requests.get met: [transport, status_code, body].
\*  - transport "fail": requests.get raised a RequestException and `response`
\*    was never bound; the handler's f-string reads response.status_code and
\*    raises UnboundLocalError in its turn (lines 84-89);
\*  - 4xx/5xx: raise_for_status raises HTTPError, a RequestException, and the
\*    handler raises RequestException (lines 82-89), before line 91 is reached;
\*  - another status that is not 200: ResponseStatusError (lines 91-98);
\*  - a body that is not JSON: response.json() raises JSONDecodeError, and the
\*    handler's JSONDecodeError(error_message) lacks the constructor's doc and
\*    pos arguments: TypeError (lines 100-107).
\* line 86: 'Proizoshla oshibka pri obrashchenii k API: {status_code} {error}'
\* line 93: 'Poluchen nepravilnyy kod sostoyaniya ot API: {status_code}'
get_api_answer(timestamp, http) ==
    IF http.transport = "fail"
    THEN Raised("UnboundLocalError",
                "cannot access local variable 'response' where it is not associated with a value",
                NoBody)
    ELSE LET rfs == raise_for_status(http.status_code, Url(timestamp))
         IN  IF rfs.raised
             THEN Raised("RequestException",
                         "Proizoshla oshibka pri obrashchenii k API: "
                         \o ToString(http.status_code) \o " " \o rfs.msg, NoBody)
             ELSE IF http.status_code # HTTP_OK
             THEN Raised("ResponseStatusError",
                         "Poluchen nepravilnyy kod sostoyaniya ot API: "
                         \o ToString(http.status_code), NoBody)
             ELSE IF ~http.body.json
             THEN Raised("TypeError",
                         "JSONDecodeError.__init__() missing 2 required positional arguments: 'doc' and 'pos'",
                         NoBody)
             ELSE Returned(http.body)

\* ------------------------------------------------------ check_response
\* check_response without the isinstance test of line 120.
check_response_any_homeworks(response) ==
    IF ~response.isDict
    THEN Raised("TypeError", "Otvet dolzhen byt slovarem", <<>>)
    ELSE IF ~response.hasHomeworks
    THEN Raised("ValueError", "Otvet API ne soderzhit pole \"homeworks\"", <<>>)
    ELSE Returned(response.homeworks)

\* line 113: 'Otvet dolzhen byt slovarem'
\* line 117: 'Otvet API ne soderzhit pole "homeworks"'
\* line 121: 'Pole "homeworks" dolzhno byt spiskom'
check_response(response) ==
    IF ~response.isDict
    THEN Raised("TypeError", "Otvet dolzhen byt slovarem", <<>>)
    ELSE IF ~response.hasHomeworks
    THEN Raised("ValueError", "Otvet API ne soderzhit pole \"homeworks\"", <<>>)
    ELSE IF ~response.homeworksIsList
    THEN Raised("TypeError", "Pole \"homeworks\" dolzhno byt spiskom", <<>>)
    ELSE Returned(response.homeworks)

\* -------------------------------------------------------- send_message
\* send_message without its try: the bot's exception reaches the caller.
send_message_propagates(message, delivered) ==
    [text |-> message, delivered |-> delivered, raised |-> ~delivered]

\* One call of bot.send_message with `message`; delivered tells whether the
\* bot raised.  Either way send_message logs and returns None (lines 66-70):
\* `except Exception` keeps the bot's exception in (raised is FALSE).
send_message(message, delivered) ==
    [text |-> message, delivered |-> delivered, raised |-> FALSE]

\* -------------------------------------------------------- ErrorHandler
\* ErrorHandler.__init__: last_error_message = None.
ErrorHandlerInit == None

\* handle_error without the comparison: every error is sent.
handle_error_always(self, error_message, delivered) ==
    [sent |-> <<send_message(error_message, delivered)>>,
     last_error_message |-> error_message, raised |-> FALSE]

\* handle_error (lines 155-159): self is last_error_message.  sent: the
\* send_message calls made; last_error_message: the field afterwards;
\* raised: send_message raised, and line 159 was not reached.
handle_error(self, error_message, delivered) ==
    IF self # error_message
    THEN LET s == send_message(error_message, delivered)
         IN  [sent |-> <<s>>,
              last_error_message |-> IF s.raised THEN self ELSE error_message,
              raised |-> s.raised]
    ELSE [sent |-> <<>>, last_error_message |-> self, raised |-> FALSE]

\* reset_last_error that leaves the field as it is.
reset_last_error_kept(self) == self

\* reset_last_error (lines 161-163).
reset_last_error(self) == None

\* ---------------------------------------------------------------- main
\* line 189: 'Sboy v rabote programmy: {error}'
ErrorMessage(msg) == "Sboy v rabote programmy: " \o msg

\* Line 184 without the assignment: the checkpoint never moves.
NextTimestampStuck(api_response, timestamp) == timestamp

\* line 184: api_response.get('current_date', timestamp).
NextTimestamp(api_response, timestamp) ==
    IF api_response.hasDate THEN api_response.current_date ELSE timestamp

\* The exception classes the program can raise that Python and requests
\* derive from Exception.
BuiltinExceptions ==
    {"UnboundLocalError", "TypeError", "ValueError", "AttributeError",
     "RequestException", "HTTPError", "JSONDecodeError",
     "ApiTelegramException"}

\* The classes of the exceptions module (imported at line 14), which derive
\* from Exception.
CustomExceptions == {"ResponseStatusError"}

\* An except clause for RequestException only.
CaughtRequestsOnly(exc) == exc \in {"RequestException", "HTTPError"}

\* `except Exception` (line 188): the classes the clause catches.
Caught(exc) == exc \in BuiltinExceptions \cup CustomExceptions

\* The except branch of the loop (lines 188-191) for exception `error`; an
\* exception the clause does not catch, or one raised inside the branch,
\* leaves main ("crash").
OnError(timestamp, last_error_message, error, delivered) ==
    LET error_message == ErrorMessage(error.msg)
        h == handle_error(last_error_message, error_message, delivered)
    IN  IF Caught(error.exc) /\ h.raised
        THEN [kind |-> "crash", exc |-> "ApiTelegramException",
              error_message |-> error_message, sent |-> h.sent,
              handled |-> TRUE, reset |-> FALSE,
              timestamp |-> timestamp,
              last_error_message |-> h.last_error_message]
        ELSE IF Caught(error.exc)
        THEN [kind |-> "error", exc |-> error.exc,
              error_message |-> error_message, sent |-> h.sent,
              handled |-> TRUE, reset |-> FALSE,
              timestamp |-> timestamp,
              last_error_message |-> h.last_error_message]
        ELSE [kind |-> "crash", exc |-> error.exc,
              error_message |-> None, sent |-> <<>>,
              handled |-> FALSE, reset |-> FALSE,
              timestamp |-> timestamp,
              last_error_message |-> last_error_message]

\* The else branch reporting "no new checks" through the error handler.
OnEmptyReported(timestamp, last_error_message) ==
    LET h == handle_error(last_error_message, "Novykh proverok net.", TRUE)
    IN  [kind |-> "empty", exc |-> "", error_message |-> None, sent |-> h.sent,
         handled |-> TRUE, reset |-> FALSE,
         timestamp |-> timestamp, last_error_message |-> h.last_error_message]

\* The else branch clearing the dedup state as the if branch does.
OnEmptyResets(timestamp, last_error_message) ==
    [kind |-> "empty", exc |-> "", error_message |-> None, sent |-> <<>>,
     handled |-> FALSE, reset |-> FALSE,
     timestamp |-> timestamp,
     last_error_message |-> reset_last_error(last_error_message)]

\* The else branch of `if homeworks` (lines 185-186): a debug line only.
OnEmpty(timestamp, last_error_message) ==
    [kind |-> "empty", exc |-> "", error_message |-> None, sent |-> <<>>,
     handled |-> FALSE, reset |-> FALSE,
     timestamp |-> timestamp, last_error_message |-> last_error_message]

\* An iteration that takes the last element of the list.
LastHomework(homeworks) == homeworks[Len(homeworks)]

\* homeworks[0], line 181.
FirstHomework(homeworks) == homeworks[1]

\* A loop that tries again at once after an error.
AfterIterationRetry(kind) ==
    IF kind = "crash" THEN "exited"
    ELSE IF kind = "error" THEN "fetch" ELSE "sleep"

\* Where main is after the try statement: at time.sleep (line 193), which
\* follows the try whatever branch ran, unless an exception left main.
AfterIteration(kind) == IF kind = "crash" THEN "exited" ELSE "sleep"

\* One iteration of the while loop up to the sleep (lines 176-191), from the
\* loop's state, what the HTTP call met and whether the bot delivers.
\*   kind: "status" (a homework was parsed), "empty" (no homeworks), "error";
\*   exc, error_message: the exception caught and the text made of it;
\*   sent: the send_message calls made; handled: handle_error was called;
\*   reset: reset_last_error was called; the loop's state afterwards.
Iteration(timestamp, last_error_message, http, delivered) ==
    LET api_response == get_api_answer(timestamp, http)
    IN  IF api_response.raised
        THEN OnError(timestamp, last_error_message, api_response, delivered)
        ELSE
    LET homeworks == check_response(api_response.value)
    IN  IF homeworks.raised
        THEN OnError(timestamp, last_error_message, homeworks, delivered)
        ELSE IF homeworks.value = <<>>
        THEN OnEmpty(timestamp, last_error_message)
        ELSE
    LET status_message == parse_status(FirstHomework(homeworks.value))
    IN  IF status_message.raised
        THEN OnError(timestamp, last_error_message, status_message, delivered)
        ELSE
    LET s == send_message(status_message.value, delivered)
    IN  IF s.raised
        THEN LET e == OnError(timestamp, last_error_message,
                              Raised("ApiTelegramException",
                                     "A request to the Telegram API was unsuccessful.",
                                     ""),
                              delivered)
             IN  [e EXCEPT !.sent = <<s>> \o e.sent]
        ELSE [kind |-> "status", exc |-> "", error_message |-> None,
              sent |-> <<s>>,
              handled |-> FALSE, reset |-> TRUE,
              timestamp |-> NextTimestamp(api_response.value, timestamp),
              last_error_message |-> reset_last_error(last_error_message)]

\* ------------------------------------------------------ the remote API
\* Values os.getenv can give a token.
TokenValues == {Unset, "", "secret"}

\* The statuses and names the tracked submission can carry on the server:
\* the documented ones, an undocumented status, and an absent key.
ServerStatuses == {"approved", "reviewing", "rejected", "unknown", None}
ServerNames == {"X", None}
\* The records explored: every status under the name X, and one record
\* without a name.
ServerRecords ==
    {r \in [status : ServerStatuses, homework_name : ServerNames] :
        r.homework_name = None => r.status = "approved"}

\* The homeworks the API lists for from_date: the tracked submission when it
\* was updated since from_date (a from_date left out lists it always).
Listing(submission, from_date) ==
    IF from_date.type = "int" /\ submission.updated < from_date.val
    THEN <<>>
    ELSE <<[isDict |-> TRUE, status |-> submission.status,
            homework_name |-> submission.homework_name]>>

\* current_date of a 200 answer: absent, the server's clock, an earlier
\* instant, or null.
DateKinds == {"absent", "now", "stale", "null"}

DateOf(kind, clock) ==
    CASE kind = "now" -> IntVal(clock)
      [] kind = "stale" -> IntVal(0)
      [] OTHER -> NoneVal

\* Statuses the server answers with.
StatusCodes == {404, 204}

Http(transport, status_code, body) ==
    [transport |-> transport, status_code |-> status_code, body |-> body]

Body(isDict, hasHomeworks, homeworksIsList, homeworks, hasDate, current_date) ==
    [json |-> TRUE, isDict |-> isDict, hasHomeworks |-> hasHomeworks,
     homeworksIsList |-> homeworksIsList, homeworks |-> homeworks,
     hasDate |-> hasDate, current_date |-> current_date]

\* Everything requests.get can meet when the loop asks with from_date.
HttpOutcomes(submission, from_date, clock) ==
    {Http("fail", 0, NoBody)}
    \cup {Http("ok", c, NoBody) : c \in StatusCodes}
    \cup {Http("ok", HTTP_OK, NoBody)}
    \cup {Http("ok", HTTP_OK, Body(FALSE, FALSE, FALSE, <<>>, FALSE, NoneVal)),
          Http("ok", HTTP_OK, Body(TRUE, FALSE, FALSE, <<>>, TRUE, IntVal(clock))),
          Http("ok", HTTP_OK, Body(TRUE, TRUE, FALSE, <<>>, TRUE, IntVal(clock)))}
    \cup {Http("ok", HTTP_OK,
               Body(TRUE, TRUE, TRUE, Listing(submission, from_date),
                    k # "absent", DateOf(k, clock))) : k \in DateKinds}

\* The answers explored over longer runs: one failing status, one schema
\* violation, and the listing with or without the server's current_date.
LongOutcomes(submission, from_date, clock) ==
    {h \in HttpOutcomes(submission, from_date, clock) :
        \/ h.status_code = 404
        \/ h.body.json /\ h.body.isDict /\ ~h.body.hasHomeworks
        \/ h.body.homeworksIsList
           /\ (h.body.hasDate => h.body.current_date = IntVal(clock))}

\* Older elements that may follow the tracked submission in the list: none,
\* one that is not a mapping, one with an undocumented status, a valid one.
Tails ==
    {<<>>,
     <<[isDict |-> FALSE, status |-> None, homework_name |-> None]>>,
     <<[isDict |-> TRUE, status |-> "unknown", homework_name |-> "Y"]>>,
     <<[isDict |-> TRUE, status |-> "rejected", homework_name |-> "Y"]>>}

\* The valid answers whose list goes on after its first element.
ListOutcomes(submission, from_date, clock) ==
    {Http("ok", HTTP_OK,
          Body(TRUE, TRUE, TRUE,
               IF Listing(submission, from_date) = <<>> THEN <<>>
               ELSE Listing(submission, from_date) \o t,
               k # "absent", DateOf(k, clock))) :
        k \in DateKinds, t \in Tails}

\* --------------------------------------------------------------- state
VARIABLES
    pc,                 \* "start", "fetch" (top of the loop), "sleep", "exited"
    environ,            \* the three tokens as os.getenv read them
    critical,           \* the tokens named in logger.critical lines
    timestamp,          \* main's checkpoint
    last_error_message, \* error_handler.last_error_message
    now,                \* the clock
    fetches,            \* calls of requests.get so far
    sends,              \* calls of bot.send_message so far
    cycle,              \* the last iteration: its input, outcome and pre-state
    hist,               \* the outcomes of the (at most two) iterations before it
    submission,         \* the tracked submission on the server
    reviews,            \* status changes made by the reviewer
    notified,           \* versions of the submission whose verdict was delivered
    renotified,         \* a verdict was delivered for a version already notified
    datesSeen,          \* kinds of current_date read at line 184 so far
    last_sent_error     \* text of the last error notification the bot delivered

vars == <<pc, environ, critical, timestamp, last_error_message, now, fetches,
          sends, cycle, hist, submission, reviews, notified, renotified,
          datesSeen, last_sent_error>>

NoCycle ==
    [kind |-> "none", exc |-> "", error_message |-> None, sent |-> <<>>,
     handled |-> FALSE,
     reset |-> FALSE, timestamp |-> NoneVal, last_error_message |-> None,
     http |-> Http("none", 0, NoBody), timestamp_before |-> NoneVal,
     last_before |-> None]

Summary(c) ==
    [kind |-> c.kind, error_message |-> c.error_message, sent |-> c.sent,
     last_before |-> c.last_before]

DateKind(body, clock) ==
    IF ~body.hasDate THEN "absent"
    ELSE IF body.current_date = IntVal(clock) THEN "now"
    ELSE IF body.current_date.type = "int" THEN "stale"
    ELSE "null"

Init ==
    /\ pc = "start"
    /\ environ \in [{TokenNames[i] : i \in 1..Len(TokenNames)} -> TokenValues]
    /\ critical = <<>>
    /\ timestamp = NoneVal
    /\ last_error_message = None
    /\ now = StartTime
    /\ fetches = 0
    /\ sends = 0
    /\ cycle = NoCycle
    /\ hist = <<>>
    /\ \E r \in ServerRecords, u \in {0, StartTime} :
         submission = [status |-> r.status, homework_name |-> r.homework_name,
                       updated |-> u]
    /\ reviews = 0
    /\ notified = {}
    /\ renotified = FALSE
    /\ datesSeen = {}
    /\ last_sent_error = None

\* main, lines 168-173: check_tokens, then the bot, the ErrorHandler and the
\* first checkpoint.
Startup ==
    /\ pc = "start"
    /\ LET c == check_tokens(environ)
       IN  /\ critical' = critical \o c.logged
           /\ IF c.exits
              THEN /\ pc' = "exited"
                   /\ UNCHANGED <<timestamp, last_error_message>>
              ELSE /\ pc' = "fetch"
                   /\ last_error_message' = ErrorHandlerInit
                   /\ timestamp' = IntVal(now - START_OFFSET)
    /\ UNCHANGED <<environ, now, fetches, sends, cycle, hist, submission,
                   reviews, notified, renotified, datesSeen, last_sent_error>>

\* One iteration of the loop, lines 176-191, on one of `outcomes`.
Poll(outcomes, limit) ==
    /\ pc = "fetch"
    /\ fetches < limit
    /\ \E http \in outcomes, delivered \in BOOLEAN :
         LET r == Iteration(timestamp, last_error_message, http, delivered)
             verdictDelivered == r.kind = "status" /\ r.sent[1].delivered
         IN  /\ timestamp' = r.timestamp
             /\ last_error_message' = r.last_error_message
             /\ cycle' = [kind |-> r.kind, exc |-> r.exc,
                          error_message |-> r.error_message,
                          sent |-> r.sent, handled |-> r.handled,
                          reset |-> r.reset, timestamp |-> r.timestamp,
                          last_error_message |-> r.last_error_message,
                          http |-> http, timestamp_before |-> timestamp,
                          last_before |-> last_error_message]
             /\ sends' = sends + Len(r.sent)
             /\ notified' = IF verdictDelivered
                            THEN notified \cup {submission} ELSE notified
             /\ renotified' = (renotified
                               \/ (verdictDelivered /\ submission \in notified))
             /\ datesSeen' = IF r.kind = "status"
                             THEN datesSeen \cup {DateKind(http.body, now)}
                             ELSE datesSeen
             /\ last_sent_error' =
                    IF /\ r.handled /\ r.sent # <<>>
                       /\ r.sent[Len(r.sent)].delivered
                    THEN r.sent[Len(r.sent)].text
                    ELSE last_sent_error
    /\ hist' = IF cycle.kind = "none" THEN <<>>
               ELSE IF Len(hist) < 2 THEN Append(hist, Summary(cycle))
               ELSE <<hist[2], Summary(cycle)>>
    /\ fetches' = fetches + 1
    /\ pc' = AfterIteration(cycle'.kind)
    /\ UNCHANGED <<environ, critical, now, submission, reviews>>

\* time.sleep(RETRY_PERIOD), line 193.
Sleep ==
    /\ pc = "sleep"
    /\ now' = now + RETRY_PERIOD
    /\ pc' = "fetch"
    /\ UNCHANGED <<environ, critical, timestamp, last_error_message, fetches,
                   sends, cycle, hist, submission, reviews, notified,
                   renotified, datesSeen, last_sent_error>>

\* The reviewer gives the submission another status while the bot sleeps.
Review ==
    /\ pc = "sleep"
    /\ reviews < MaxReviews
    /\ \E s \in ServerStatuses \ {submission.status} :
         submission' = [submission EXCEPT !.status = s, !.updated = now + 1]
    /\ reviews' = reviews + 1
    /\ UNCHANGED <<pc, environ, critical, timestamp, last_error_message, now,
                   fetches, sends, cycle, hist, notified, renotified, datesSeen,
                   last_sent_error>>

Cycle == Poll(HttpOutcomes(submission, timestamp, now), MaxCycles)

LongCycle == Poll(LongOutcomes(submission, timestamp, now), MaxLongCycles)

Next == Startup \/ Cycle \/ Sleep \/ Review

Spec == Init /\ [][Next]_vars

NextLong == Startup \/ LongCycle \/ Sleep \/ Review

SpecLong == Init /\ [][NextLong]_vars

\* The loop keeps running: time.sleep returns after RETRY_PERIOD seconds and
\* the next iteration starts.
ListCycle == Poll(ListOutcomes(submission, timestamp, now), MaxCycles)

NextLists == Startup \/ ListCycle \/ Sleep \/ Review

SpecLists == Init /\ [][NextLists]_vars

\* The submission is left as it is: the reviewer plays no part in it.
NextFair == Startup \/ Cycle \/ Sleep

SpecFair == Init /\ [][NextFair]_vars /\ WF_vars(Sleep) /\ WF_vars(Cycle)

\* ============================================================== claims
\* The iteration before the last one, when there was one.
HasPrev == hist # <<>>
Prev == hist[Len(hist)]

\* Texts of the send_message calls of an iteration.
Texts(sent) == [i \in 1..Len(sent) |-> sent[i].text]

\* C1: of two consecutive iterations that fail, the second one sends nothing
\* when its error text equals the first one's, and sends exactly its own
\* text when the texts differ; counted over both iterations, from a dedup
\* state that does not already hold the first text, the same text is sent
\* exactly once and two different texts exactly twice, one per text.
C1_ErrorDedup ==
    (HasPrev /\ Prev.kind = "error" /\ cycle.kind = "error") =>
        /\ Prev.error_message = cycle.error_message => cycle.sent = <<>>
        /\ Prev.error_message # cycle.error_message =>
               Texts(cycle.sent) = <<cycle.error_message>>
        /\ Prev.last_before # Prev.error_message =>
               Texts(Prev.sent) \o Texts(cycle.sent) =
                   IF Prev.error_message = cycle.error_message
                   THEN <<Prev.error_message>>
                   ELSE <<Prev.error_message, cycle.error_message>>

\* Two iterations failed with the same text: the first sent it, the second
\* sent nothing.
C1_Witness ==
    /\ HasPrev /\ Prev.kind = "error" /\ cycle.kind = "error"
    /\ Prev.error_message = cycle.error_message
    /\ Texts(Prev.sent) = <<cycle.error_message>>
    /\ cycle.sent = <<>>

\* The last three iterations: failed with E, raised nothing, failed with E.
ErrorSuccessError ==
    /\ Len(hist) = 2
    /\ hist[1].kind = "error"
    /\ hist[2].kind \in {"empty", "status"}
    /\ cycle.kind = "error"
    /\ cycle.error_message = hist[1].error_message

\* C2 as stated: after an iteration failing with E and an iteration that
\* raised nothing (empty homeworks or not), an iteration failing with E
\* sends the notification for E again.
C2_AnySuccessResets ==
    ErrorSuccessError => Texts(cycle.sent) = <<cycle.error_message>>

\* C2, amended: after an iteration failing with E and an iteration that
\* raised nothing and whose homeworks list was not empty, an iteration
\* failing with E sends the notification for E again.
C2_NonEmptySuccessResets ==
    (ErrorSuccessError /\ hist[2].kind = "status") =>
        Texts(cycle.sent) = <<cycle.error_message>>

\* E, then a parsed homework, then E again, notified both times.
C2_Witness ==
    /\ ErrorSuccessError /\ hist[2].kind = "status"
    /\ Texts(hist[1].sent) = <<cycle.error_message>>
    /\ Texts(cycle.sent) = <<cycle.error_message>>

\* C3: the checkpoint changes in an iteration only if it raised nothing and
\* its homeworks list was not empty; it then becomes the answer's
\* current_date when the key is there and keeps its value when it is not; an
\* iteration that raises leaves it as it was.
C3_CheckpointRule ==
    cycle.kind # "none" =>
        /\ timestamp = cycle.timestamp
        /\ cycle.timestamp # cycle.timestamp_before => cycle.kind = "status"
        /\ cycle.kind = "status" =>
               cycle.timestamp =
                   IF cycle.http.body.hasDate
                   THEN cycle.http.body.current_date
                   ELSE cycle.timestamp_before
        /\ cycle.kind = "error" => cycle.timestamp = cycle.timestamp_before

\* A parsed homework moved the checkpoint to the answer's current_date.
C3_Witness ==
    /\ cycle.kind = "status"
    /\ cycle.http.body.hasDate
    /\ timestamp = cycle.http.body.current_date
    /\ timestamp # cycle.timestamp_before

\* The answer of the last iteration was valid and listed no homework.
ValidEmptyAnswer ==
    /\ cycle.kind # "none"
    /\ cycle.http.transport = "ok" /\ cycle.http.status_code = HTTP_OK
    /\ cycle.http.body.json /\ cycle.http.body.isDict
    /\ cycle.http.body.hasHomeworks /\ cycle.http.body.homeworksIsList
    /\ cycle.http.body.homeworks = <<>>

\* C4: on a valid answer whose homeworks list is empty the iteration sends
\* nothing, leaves the checkpoint as it was and does not call handle_error.
C4_EmptyIsSilent ==
    ValidEmptyAnswer =>
        /\ cycle.sent = <<>>
        /\ timestamp = cycle.timestamp_before
        /\ ~cycle.handled

\* An empty answer right after a failure that was notified: nothing sent.
C4_Witness ==
    /\ ValidEmptyAnswer
    /\ HasPrev /\ Prev.kind = "error" /\ Len(Prev.sent) = 1
    /\ cycle.sent = <<>>

\* C5 as stated: however the API words its answers (current_date absent or
\* the server's clock), a version of the submission whose verdict was
\* delivered is not notified again while its status has not changed.
C5_OneNotificationPerChange ==
    datesSeen \subseteq {"absent", "now"} => ~renotified

\* A required token is missing: unset or empty.
SomeTokenMissing ==
    \E i \in 1..Len(TokenNames) : environ[TokenNames[i]] \in {Unset, ""}

\* C6: with a required token missing the process ends at startup, before
\* the loop: no HTTP fetch and no bot send ever happens; with all three
\* present the process does not exit at startup and enters the loop.
C6_StartupGate ==
    /\ SomeTokenMissing =>
           /\ pc \in {"start", "exited"}
           /\ fetches = 0 /\ sends = 0
    /\ (~SomeTokenMissing /\ pc # "start") => pc \in {"fetch", "sleep"}

\* Only TELEGRAM_CHAT_ID is missing (empty), and the process has exited.
C6_Witness ==
    /\ pc = "exited"
    /\ environ["PRACTICUM_TOKEN"] = "secret"
    /\ environ["TELEGRAM_TOKEN"] = "secret"
    /\ environ["TELEGRAM_CHAT_ID"] = ""
    /\ fetches = 0 /\ sends = 0

\* C7 as stated: when the process has exited at startup, the critical lines
\* are one per missing token, each naming its token.
C7_OneCriticalLinePerMissing ==
    pc = "exited" =>
        /\ Len(critical) =
               Cardinality({i \in 1..Len(TokenNames) :
                               environ[TokenNames[i]] \in {Unset, ""}})
        /\ \A i \in 1..Len(TokenNames) :
               environ[TokenNames[i]] \in {Unset, ""} =>
                   \E j \in 1..Len(critical) : critical[j] = TokenNames[i]

\* C8 as stated: an answer with a status other than 200 makes the iteration
\* fail with ResponseStatusError and the text 'Poluchen nepravilnyy kod
\* sostoyaniya ot API: <status code>', and leaves the checkpoint unchanged.
C8_BadStatusCode ==
    (cycle.http.transport = "ok" /\ cycle.http.status_code # HTTP_OK) =>
        /\ cycle.kind = "error"
        /\ cycle.exc = "ResponseStatusError"
        /\ cycle.error_message =
               "Sboy v rabote programmy: Poluchen nepravilnyy kod sostoyaniya ot API: "
               \o ToString(cycle.http.status_code)
        /\ timestamp = cycle.timestamp_before

\* The answer of the last iteration was valid and its first homework lacks a
\* status, lacks a name, or carries an undocumented status.
BadFirstRecord ==
    /\ cycle.kind # "none"
    /\ cycle.http.transport = "ok" /\ cycle.http.status_code = HTTP_OK
    /\ cycle.http.body.json /\ cycle.http.body.isDict
    /\ cycle.http.body.hasHomeworks /\ cycle.http.body.homeworksIsList
    /\ cycle.http.body.homeworks # <<>>
    /\ LET hw == cycle.http.body.homeworks[1]
       IN  \/ hw.status = None
           \/ hw.homework_name = None
           \/ hw.status \notin {"approved", "reviewing", "rejected"}

\* C9: on such a record the iteration raises, sends no status message,
\* neither moves the checkpoint nor resets the dedup state, and its only
\* possible outbound message is the error notification of handle_error.
C9_BadRecordAborts ==
    BadFirstRecord =>
        /\ cycle.kind = "error" /\ cycle.handled
        /\ \A i \in 1..Len(cycle.sent) : cycle.sent[i].text = cycle.error_message
        /\ Len(cycle.sent) =< 1
        /\ ~cycle.reset
        /\ timestamp = cycle.timestamp_before
        /\ last_error_message = cycle.error_message

\* An undocumented status was met and only the error notification went out.
C9_Witness ==
    /\ BadFirstRecord
    /\ cycle.http.body.homeworks[1].status = "unknown"
    /\ Texts(cycle.sent) = <<"Sboy v rabote programmy: Nedokumentirovannyy status raboty">>

\* The verdict texts of the three documented statuses.
VerdictText(s) ==
    CASE s = "approved"  -> "Rabota proverena: revyueru vsyo ponravilos. Ura!"
      [] s = "reviewing" -> "Rabota vzyata na proverku revyuerom."
      [] s = "rejected"  -> "Rabota proverena: u revyuera est zamechaniya."

\* C10: for each documented status s and each name X parse_status returns
\* 'Izmenilsya status proverki raboty "X". ' followed by the verdict of s
\* (for approved and X: 'Izmenilsya status proverki raboty "X". Rabota
\* proverena: revyueru vsyo ponravilos. Ura!'), and an iteration that parsed
\* a homework passed exactly that text to send_message, once.
C10_StatusMessage ==
    /\ \A s \in {"approved", "reviewing", "rejected"}, X \in {"X", "Y"} :
           parse_status([isDict |-> TRUE, status |-> s, homework_name |-> X]) =
               Returned("Izmenilsya status proverki raboty \"" \o X \o "\". "
                        \o VerdictText(s))
    /\ parse_status([isDict |-> TRUE, status |-> "approved",
                     homework_name |-> "X"]).value =
           "Izmenilsya status proverki raboty \"X\". Rabota proverena: revyueru vsyo ponravilos. Ura!"
    /\ cycle.kind = "status" =>
           LET hw == cycle.http.body.homeworks[1]
           IN  Texts(cycle.sent) =
                   <<"Izmenilsya status proverki raboty \"" \o hw.homework_name
                     \o "\". " \o VerdictText(hw.status)>>

\* The approved homework X was parsed and its message handed to the bot.
C10_Witness ==
    /\ cycle.kind = "status"
    /\ cycle.http.body.homeworks[1].status = "approved"
    /\ cycle.http.body.homeworks[1].homework_name = "X"
    /\ Texts(cycle.sent) =
           <<"Izmenilsya status proverki raboty \"X\". Rabota proverena: revyueru vsyo ponravilos. Ura!">>

\* C11: once an iteration has run (startup has passed), the process is in
\* the loop for good, whatever the iteration raised (transport failure, bad
\* status, malformed body, schema violation, incomplete record) and whether
\* or not the bot delivered; and after every iteration the loop comes back
\* to the fetch.
C11_LoopNeverStops ==
    /\ [](cycle.kind # "none" => pc \in {"fetch", "sleep"})
    /\ (pc = "sleep") ~> (pc = "fetch")

\* After a transport failure whose notification the bot did not deliver,
\* the loop is back at the fetch.
C11_Witness ==
    /\ pc = "fetch"
    /\ cycle.kind = "error"
    /\ cycle.http.transport = "fail"
    /\ Len(cycle.sent) = 1 /\ ~cycle.sent[1].delivered

\* A send_message call of the last iteration was not delivered.
SendFailed ==
    \E i \in 1..Len(cycle.sent) : ~cycle.sent[i].delivered

\* C12: a failure of the bot inside send_message stays there: when the
\* status message is not delivered, handle_error is not called and nothing
\* else is sent; when the error notification is not delivered, nothing else
\* is sent either; in both cases the iteration ends normally and the loop
\* goes on to its sleep.
C12_SendFailureSwallowed ==
    SendFailed =>
        /\ cycle.kind \in {"status", "error"}
        /\ Len(cycle.sent) = 1
        /\ cycle.kind = "status" => ~cycle.handled /\ cycle.error_message = None
        /\ pc \in {"sleep", "fetch"}

\* The status message was not delivered, and the loop went to sleep.
C12_Witness ==
    /\ cycle.kind = "status"
    /\ SendFailed
    /\ pc = "sleep"

\* C13 as stated: when the status message was composed and the bot did not
\* deliver it, the iteration leaves last_error_message and the checkpoint as
\* they were.
C13_AdvanceOnlyOnDelivery ==
    (cycle.kind = "status" /\ SendFailed) =>
        /\ timestamp = cycle.timestamp_before
        /\ last_error_message = cycle.last_before

\* C14 as stated: last_error_message is None or the text of the most recent
\* error notification the bot delivered; a text whose send failed is not
\* stored.
C14_StoredIsLastSent ==
    pc \in {"fetch", "sleep"} =>
        last_error_message \in {None, last_sent_error}

\* C15: reset_last_error runs in exactly the iterations that raise nothing
\* and parse a homework; an iteration with an empty list leaves
\* last_error_message as it was and one that raises leaves it set, so only
\* a parsed homework turns a stored text into None; and after E, an empty
\* list, E again, the third iteration sends nothing.
C15_ResetOnlyOnStatus ==
    cycle.kind # "none" =>
        /\ cycle.reset <=> cycle.kind = "status"
        /\ cycle.kind = "status" => last_error_message = None
        /\ cycle.kind = "empty" => last_error_message = cycle.last_before
        /\ cycle.kind = "error" => last_error_message = cycle.error_message
        /\ (cycle.last_before # None /\ last_error_message = None) =>
               cycle.kind = "status"
        /\ (ErrorSuccessError /\ hist[2].kind = "empty") => cycle.sent = <<>>

\* E was notified, an empty list followed, and E was then kept silent.
C15_Witness ==
    /\ ErrorSuccessError /\ hist[2].kind = "empty"
    /\ Texts(hist[1].sent) = <<cycle.error_message>>
    /\ cycle.sent = <<>>

\* text begins with prefix.
StartsWith(text, prefix) ==
    Len(text) >= Len(prefix) /\ SubSeq(text, 1, Len(prefix)) = prefix

\* C16 as stated: a transport failure of requests.get makes the iteration
\* fail with RequestException and a text beginning 'Proizoshla oshibka pri
\* obrashchenii k API: '; a 200 answer whose body is not JSON makes it fail
\* with JSONDecodeError and a text beginning 'Oshibka dekodirovaniya JSON
\* otveta ot API: '; each ends the iteration only.
C16_FetchErrorKinds ==
    /\ cycle.http.transport = "fail" =>
           /\ cycle.kind = "error"
           /\ cycle.exc = "RequestException"
           /\ StartsWith(cycle.error_message,
                  "Sboy v rabote programmy: Proizoshla oshibka pri obrashchenii k API: ")
    /\ (/\ cycle.http.transport = "ok"
        /\ cycle.http.status_code = HTTP_OK
        /\ ~cycle.http.body.json) =>
           /\ cycle.kind = "error"
           /\ cycle.exc = "JSONDecodeError"
           /\ StartsWith(cycle.error_message,
                  "Sboy v rabote programmy: Oshibka dekodirovaniya JSON otveta ot API: ")

\* C18: each iteration makes one fetch and, whatever its outcome, is
\* followed by one sleep of 600 seconds before the next fetch: at the top of
\* the loop as many sleeps of 600 s have elapsed as fetches were made, and
\* during the sleep one fewer.
C18_OneFetchOneSleep ==
    /\ pc = "fetch" => now = StartTime + 600 * fetches
    /\ pc = "sleep" => fetches >= 1 /\ now = StartTime + 600 * (fetches - 1)
    /\ cycle.kind # "none" => pc \in {"fetch", "sleep"}

\* Two fetches were made, the first of which failed, and one sleep lies
\* between them.
C18_Witness ==
    /\ pc = "sleep"
    /\ fetches = 2
    /\ HasPrev /\ Prev.kind = "error"
    /\ now = StartTime + 600

\* The bodies check_response is tried on.
SomeHomeworks ==
    {<<>>,
     <<[isDict |-> TRUE, status |-> "approved", homework_name |-> "X"]>>,
     <<[isDict |-> TRUE, status |-> "unknown", homework_name |-> "X"],
       [isDict |-> FALSE, status |-> None, homework_name |-> None]>>}

\* The decoded body of the last iteration violated the schema.
SchemaViolation ==
    /\ cycle.http.transport = "ok" /\ cycle.http.status_code = HTTP_OK
    /\ cycle.http.body.json
    /\ \/ ~cycle.http.body.isDict
       \/ ~cycle.http.body.hasHomeworks
       \/ ~cycle.http.body.homeworksIsList

\* C19: check_response raises when the body is not a mapping, lacks the
\* homeworks key or holds a homeworks that is not a list, and otherwise
\* returns the homeworks list as it is; an iteration whose body violates the
\* schema raises one of these three errors, sends no status message (at
\* most the error notification) and applies neither the reset nor the
\* checkpoint update.
C19_SchemaValidation ==
    /\ \A hw \in SomeHomeworks, d \in BOOLEAN :
         /\ check_response(Body(FALSE, FALSE, FALSE, hw, d, NoneVal)).raised
         /\ check_response(Body(TRUE, FALSE, FALSE, hw, d, NoneVal)).raised
         /\ check_response(Body(TRUE, TRUE, FALSE, hw, d, NoneVal)).raised
         /\ check_response(Body(TRUE, TRUE, TRUE, hw, d, NoneVal)) = Returned(hw)
    /\ SchemaViolation =>
         /\ cycle.kind = "error"
         /\ cycle.error_message \in
                {"Sboy v rabote programmy: Otvet dolzhen byt slovarem",
                 "Sboy v rabote programmy: Otvet API ne soderzhit pole \"homeworks\"",
                 "Sboy v rabote programmy: Pole \"homeworks\" dolzhno byt spiskom"}
         /\ \A i \in 1..Len(cycle.sent) : cycle.sent[i].text = cycle.error_message
         /\ ~cycle.reset
         /\ timestamp = cycle.timestamp_before

\* homeworks was not a list, and only the error notification went out.
C19_Witness ==
    /\ SchemaViolation
    /\ cycle.http.body.isDict /\ cycle.http.body.hasHomeworks
    /\ Texts(cycle.sent) =
           <<"Sboy v rabote programmy: Pole \"homeworks\" dolzhno byt spiskom">>

\* C20 as stated: in the loop the checkpoint is an integer, and no iteration
\* makes it smaller, whatever current_date the answer carries.
C20_CheckpointMonotone ==
    pc \in {"fetch", "sleep"} =>
        /\ timestamp.type = "int"
        /\ (cycle.kind # "none" /\ cycle.timestamp_before.type = "int") =>
               timestamp.val >= cycle.timestamp_before.val

\* C17: an iteration on a valid answer with a non-empty list ends exactly as
\* it would on the same answer cut down to its first element: the same
\* messages sent, the same error or none, the same checkpoint and the same
\* dedup state, whatever follows the first element.
C17_OnlyFirstElement ==
    (cycle.kind # "none" /\ cycle.http.body.homeworks # <<>>) =>
        LET cut == [cycle.http EXCEPT
                       !.body.homeworks = <<cycle.http.body.homeworks[1]>>]
            delivered == IF cycle.sent = <<>> THEN TRUE
                         ELSE cycle.sent[1].delivered
            r == Iteration(cycle.timestamp_before, cycle.last_before, cut,
                           delivered)
        IN  /\ r.kind = cycle.kind
            /\ r.exc = cycle.exc
            /\ r.error_message = cycle.error_message
            /\ r.sent = cycle.sent
            /\ r.timestamp = timestamp
            /\ r.last_error_message = last_error_message

\* A valid first element followed by one that is not a mapping: the verdict
\* of the first was sent.
C17_Witness ==
    /\ cycle.kind = "status"
    /\ Len(cycle.http.body.homeworks) = 2
    /\ ~cycle.http.body.homeworks[2].isDict
    /\ Len(cycle.sent) = 1

====
